---- MODULE Spec2Model ----
(***************************************************************************)
(* A model of two parts of the HotSpot garbage collectors:                 *)
(*                                                                         *)
(*  - G1TaskQueueEntry, the bit-packed work descriptor                     *)
(*    (gc/g1/g1TaskQueueEntry.hpp), and G1CMObjArrayProcessor, the array   *)
(*    slicer that pushes such descriptors                                  *)
(*    (gc/g1/g1ConcurrentMarkObjArrayProcessor.cpp);                        *)
(*  - GenMarkSweep, the serial four-phase mark-compact collection          *)
(*    (gc/serial/genMarkSweep.cpp, gc/serial/markSweep.inline.hpp).        *)
(*                                                                         *)
(* Four specifications share the variables:                                *)
(*    SpecEntry   constructs one descriptor from its arguments;            *)
(*    Spec        slices one array with a pool of marking workers;         *)
(*    SpecAdjust  applies adjust_pointer to one slot of an arbitrary heap; *)
(*    SpecGC      runs invoke_at_safepoint over a small heap.              *)
(* Each leaves the other parts' variables at their idle values.            *)
(*                                                                         *)
(* A machine word (uintptr_t) is the set of the positions of its 1 bits;   *)
(* an int is a TLA+ integer in -2^31 .. 2^31-1.                            *)
(***************************************************************************)
EXTENDS Integers, Sequences, FiniteSets, Bags, TLC

VARIABLES
  assertsOn,   \* the build defines ASSERT (debug) or not (product)
  \* ---- G1TaskQueueEntry construction
  ein,         \* the constructor called and its arguments
  epc,         \* "new" | "built" | "fatal"
  entry,       \* G1TaskQueueEntry::_val of the constructed entry
  \* ---- G1CMObjArrayProcessor
  len,         \* array->length()
  stride,      \* ObjArrayMarkingStride
  shiftUB,     \* what this build yields for a shift by a count outside 0..31
  queue,       \* the task queue: entries pushed and not yet popped
  scans,       \* bag of the scan_objArray(array, from, to) calls made
  counted,     \* sum of the values process_obj / process_slice returned
  starts,      \* number of scan_objArray_start(array) calls
  npushed,     \* number of push calls
  npopped,     \* number of entries handed to process_slice
  wk,          \* per worker: where it is in process_obj / process_slice
  \* ---- MarkSweep / GenMarkSweep
  adj,         \* one slot and the heap adjust_pointer is applied to
  gc           \* the collector and its heap (a record, see GCOff)

entryVars == <<ein, epc, entry>>
sliceVars == <<len, stride, shiftUB, queue, scans, counted, starts, npushed,
               npopped, wk>>
gcVars    == <<adj, gc>>
vars      == <<assertsOn, entryVars, sliceVars, gcVars>>

(***************************************************************************)
(* 32-bit int arithmetic                                                   *)
(***************************************************************************)
INT_MAX == 2147483647
INT_MIN == -2147483647 - 1

Pow2(k) == 2 ^ k

\* x << k on a 32-bit int for a count k in 0..31: the low 32 bits of
\* x * 2^k, read as a two's complement int (x >= 0).
Shl32Def(x, k) ==
  IF k = 0 THEN x
  ELSE IF k = 31 THEN (IF x % 2 = 1 THEN INT_MIN ELSE 0)
  ELSE LET low  == (x % Pow2(31 - k)) * Pow2(k)
           sign == (x \div Pow2(31 - k)) % 2
       IN  IF sign = 1 THEN (low - INT_MAX) - 1 ELSE low

\* x << k as the code writes it. A count outside 0..31 is undefined in C++:
\* the build either masks the count to its low five bits (the shift
\* instruction of x86 and AArch64) or yields 0.
ShiftModes == {"mask", "zero"}
Shl32(x, k, ub) ==
  IF 0 <= k /\ k <= 31 THEN Shl32Def(x, k)
  ELSE IF ub = "mask" THEN Shl32Def(x, k % 32)
  ELSE 0

\* a * b on 32-bit ints, wrapped. The slicer's products have a shifted 1
\* (a power of two, INT_MIN or 0) as their right factor.
RECURSIVE Log2Exact(_, _)
Log2Exact(b, k) == IF b = Pow2(k) THEN k ELSE Log2Exact(b, k + 1)

Mul32(a, b) ==
  IF b = 0 \/ a = 0 THEN 0
  ELSE IF b = INT_MIN THEN (IF a % 2 = 1 THEN INT_MIN ELSE 0)
  ELSE IF a > 0 /\ b > 0 /\ a <= INT_MAX \div b THEN a * b
  ELSE IF a < 0 /\ b > 0 /\ -a <= INT_MAX \div b THEN a * b
  ELSE IF a > 0 /\ b > 0 THEN Shl32Def(a, Log2Exact(b, 0))
  ELSE INT_MIN

\* log2i_graceful(len): floor(log2(len)), and -1 for len <= 0
RECURSIVE log2i(_, _)
log2i(n, k) == IF n < 2 THEN k ELSE log2i(n \div 2, k + 1)
log2i_graceful(n) == IF n <= 0 THEN -1 ELSE log2i(n, 0)

(***************************************************************************)
(* Machine words: uintptr_t, 64 bits, as the set of its 1 bits             *)
(***************************************************************************)
WordBits == 64
BitPos == 0 .. (WordBits - 1)

\* (uintptr_t) n for an int n: sign extension to 64 bits
IntToWord(n) ==
  IF n >= 0 THEN {i \in 0 .. 30 : (n \div Pow2(i)) % 2 = 1}
  ELSE LET m == (n + INT_MAX) + 1
       IN  {i \in 0 .. 30 : (m \div Pow2(i)) % 2 = 1} \cup (31 .. (WordBits - 1))

\* (int) w: the low 32 bits, two's complement
RECURSIVE SumBits(_, _)
SumBits(w, i) ==
  IF i > 30 THEN 0
  ELSE (IF i \in w THEN Pow2(i) ELSE 0) + SumBits(w, i + 1)
WordToInt(w) ==
  IF 31 \in w THEN (SumBits(w, 0) - INT_MAX) - 1 ELSE SumBits(w, 0)

WShl(w, k) == {b + k : b \in w} \cap BitPos
WShr(w, k) == {b - k : b \in w} \cap BitPos
WAnd(a, b) == a \cap b
WOr(a, b)  == a \cup b
WNot(w)    == BitPos \ w

\* a + b modulo 2^64: ripple carry from bit i upwards
RECURSIVE AddFrom(_, _, _, _)
AddFrom(a, b, i, carry) ==
  IF i >= WordBits THEN {}
  ELSE IF carry = 0 /\ (\A x \in b : x < i) THEN {x \in a : x >= i}
  ELSE LET s == (IF i \in a THEN 1 ELSE 0) + (IF i \in b THEN 1 ELSE 0) + carry
       IN  (IF s % 2 = 1 THEN {i} ELSE {}) \cup AddFrom(a, b, i + 1, s \div 2)
WAdd(a, b) == AddFrom(a, b, 0, 0)
\* a - b modulo 2^64
WSub(a, b) == AddFrom(a, WNot(b), 0, 1)

right_n_bits(n) == WSub(WShl({0}, n), {0})
nth_bit(n)      == Pow2(n)

(***************************************************************************)
(* G1TaskQueueEntry                                                        *)
(***************************************************************************)
OopTag       == {}
NarrowOopTag == {0}
TagMask      == {0}

chunk_bits  == 10
pow_bits    == 5
oop_bits    == WordBits - chunk_bits - pow_bits

oop_shift   == 0
pow_shift   == oop_bits
\* chunk_shift one bit short: the chunk field starts on pow's top bit
chunk_shift_Overlap == oop_bits + pow_bits - 1

chunk_shift == oop_bits + pow_bits

\* oop_extract_mask without the "- 3" that clears the two low tag bits
oop_extract_mask_KeepTag == right_n_bits(oop_bits)

oop_extract_mask       == WSub(right_n_bits(oop_bits), IntToWord(3))
chunk_pow_extract_mask == WNot(right_n_bits(oop_bits))

chunk_range_mask == WordToInt(right_n_bits(chunk_bits))
pow_range_mask   == WordToInt(right_n_bits(pow_bits))

has_tag(val, tag) == WAnd(val, TagMask) = tag

\* decode(val, tag): the assertion's outcome and the pointer
decode(val, tag) == WAnd(val, oop_extract_mask)

decode_is_chunked(val) == WAnd(val, chunk_pow_extract_mask) # {}

decode_chunk(val) ==
  WordToInt(WAnd(WShr(val, chunk_shift), IntToWord(chunk_range_mask)))

decode_pow(val) ==
  WordToInt(WAnd(WShr(val, pow_shift), IntToWord(pow_range_mask)))

encode_oop(p, tag) == WAdd(p, tag)

encode_chunk(chunk) == WShl(IntToWord(chunk), chunk_shift)

encode_pow(pow) == WShl(IntToWord(pow), pow_shift)

\* The constructors: the word built, and whether every assertion of the
\* constructor holds (decode's own precondition, has_tag, included).
EntryDefault == [val |-> {}, ok |-> TRUE]

EntryOop(o) ==
  LET enc == encode_oop(o, OopTag)
  IN  [val |-> enc,
       ok  |-> /\ has_tag(enc, OopTag)
               /\ decode(enc, OopTag) = o
               /\ ~decode_is_chunked(enc)]

EntryNarrowOopPtr(o) ==
  LET enc == encode_oop(o, NarrowOopTag)
  IN  [val |-> enc,
       ok  |-> /\ has_tag(enc, NarrowOopTag)
               /\ decode(enc, NarrowOopTag) = o
               /\ ~decode_is_chunked(enc)]

\* the chunk constructor without the assertion on the decoded pow
EntrySlice_NoPowCheck(o, chunk, pow) ==
  LET enc == WOr(WOr(encode_oop(o, OopTag), encode_chunk(chunk)), encode_pow(pow))
  IN  [val |-> enc,
       ok  |-> /\ has_tag(enc, OopTag)
               /\ decode(enc, OopTag) = o
               /\ decode_chunk(enc) = chunk
               /\ decode_is_chunked(enc)]

EntrySlice(o, chunk, pow) ==
  LET enc_oop   == encode_oop(o, OopTag)
      enc_chunk == encode_chunk(chunk)
      enc_pow   == encode_pow(pow)
      enc       == WOr(WOr(enc_oop, enc_chunk), enc_pow)
  IN  [val |-> enc,
       ok  |-> /\ has_tag(enc, OopTag)
               /\ decode(enc, OopTag) = o
               /\ decode_chunk(enc) = chunk
               /\ decode_pow(enc) = pow
               /\ decode_is_chunked(enc)]

\* is_oop_ptr looking at the tag alone
is_oop_ptr_TagOnly(val) == WAnd(val, NarrowOopTag) = {}

is_oop_ptr(val)        == ~decode_is_chunked(val) /\ WAnd(val, NarrowOopTag) = {}
is_narrow_oop_ptr(val) == ~decode_is_chunked(val) /\ WAnd(val, NarrowOopTag) # {}
is_array_slice(val)    == decode_is_chunked(val)
is_oop(val)            == ~decode_is_chunked(val)
is_null(val)           == val = {}

to_oop_ptr(val)        == decode(val, OopTag)
to_narrow_oop_ptr(val) == decode(val, NarrowOopTag)
to_oop(val)            == decode(val, OopTag)
chunk_of(val)          == decode_chunk(val)
pow_of(val)            == decode_pow(val)

max_addressable_bit == oop_bits
chunk_size == nth_bit(chunk_bits)


(***************************************************************************)
(* Construction of one entry (SpecEntry)                                   *)
(***************************************************************************)
\* Pointers handed to the constructors: null, aligned heap addresses up to
\* the top of the 49-bit field, and pointers that do not fit it (a low tag
\* bit set, or a bit inside the pow or chunk field).
SamplePtrs ==
  { {}, {3}, {2, 3}, {4, 20, 47}, {48}, 2 .. 48,
    {0, 3}, {1, 5}, {0}, {49}, {3, 53}, {54}, {5, 63} }

\* The ints handed to the chunk constructor as chunk and pow: every value
\* from -NegArgs up to just past the field (10 bits, 5 bits), one of the two
\* running over its whole range while the other takes the edge values.
NegArgs     == 2
MaxChunkArg == 1025
MaxPowArg   == 33
EdgeChunks  == {-1, 0, 1, 2, 511, 512, 1023, 1024}
EdgePows    == {-1, 0, 1, 15, 16, 30, 31, 32}
EdgePtrs    == { {}, {4, 20, 47}, 2 .. 48, {49} }

EntryInputs ==
  [kind : {"default"}, p : {{}}, chunk : {0}, pow : {0}]
    \cup [kind : {"oop", "oop_ptr", "narrow_oop_ptr"}, p : SamplePtrs,
          chunk : {0}, pow : {0}]
    \cup [kind : {"slice"}, p : SamplePtrs, chunk : EdgeChunks, pow : EdgePows]
    \cup [kind : {"slice"}, p : EdgePtrs, chunk : (-NegArgs) .. MaxChunkArg,
          pow : EdgePows]
    \cup [kind : {"slice"}, p : EdgePtrs, chunk : EdgeChunks,
          pow : (-NegArgs) .. MaxPowArg]

EntryIdle ==
  /\ ein = [kind |-> "default", p |-> {}, chunk |-> 0, pow |-> 0]
  /\ epc = "idle"
  /\ entry = {}

\* A constructor returns: with ASSERT, a failed assertion stops the VM.
Construct(kind, c) ==
  /\ epc = "new"
  /\ ein.kind = kind
  /\ IF assertsOn /\ ~c.ok
       THEN epc' = "fatal" /\ entry' = entry
       ELSE epc' = "built" /\ entry' = c.val
  /\ UNCHANGED <<assertsOn, ein, sliceVars, gcVars>>

ConstructDefault      == Construct("default", EntryDefault)
ConstructOop          == Construct("oop", EntryOop(ein.p))
ConstructOopPtr       == Construct("oop_ptr", EntryOop(ein.p))
ConstructNarrowOopPtr == Construct("narrow_oop_ptr", EntryNarrowOopPtr(ein.p))
ConstructSlice        == Construct("slice", EntrySlice(ein.p, ein.chunk, ein.pow))

EntryNext ==
  \/ ConstructDefault
  \/ ConstructOop
  \/ ConstructOopPtr
  \/ ConstructNarrowOopPtr
  \/ ConstructSlice


(***************************************************************************)
(* G1CMObjArrayProcessor (Spec)                                            *)
(***************************************************************************)
NumWorkers == 2
Workers == 1 .. NumWorkers

\* The address of the array being sliced.
ArrayOop == {3, 17, 40}

\* Arrays up to MaxSmallLen with strides up to MaxSmallStride are sliced by
\* all workers, which take entries in any order. The larger arrays below
\* (the chunk limit, the default stride, the overflow boundary) are sliced by
\* worker 1 alone, which takes the entry of the least pow first: the most
\* recently pushed one, as a queue's owner does.
MaxSmallLen    == 6
MaxSmallStride == 2

LargeInputs ==
  { <<1000, 16>>, <<1023, 4>>, <<1024, 1>>, <<1025, 1>>, <<2049, 1>>,
    <<1048577, 2048>>,
    <<1073741824, 4194304>>, <<1073741825, 2097152>>,
    <<2147483647, 4194304>> }

SliceInputs ==
  ((0 .. MaxSmallLen) \X (1 .. MaxSmallStride)) \cup LargeInputs

Concurrent == len <= MaxSmallLen

\* A worker: its place in process_obj / process_slice, the locals chunk, pow
\* and last_idx, and the (chunk, pow) it handed to its latest push in this
\* call (<<>> when it has pushed nothing yet). In process_slice also the
\* (chunk, pow) the call was entered with and those of all its pushes, in
\* order.
IdleWorker == [pc |-> "idle", chunk |-> 0, pow |-> 0, last_idx |-> 0, pushed |-> <<>>,
               args |-> <<>>, halves |-> <<>>]

SliceIdle ==
  /\ len = 0
  /\ stride = 1
  /\ shiftUB = "mask"
  /\ queue = EmptyBag
  /\ scans = EmptyBag
  /\ counted = 0
  /\ starts = 0
  /\ npushed = 0
  /\ npopped = 0
  /\ wk = [w \in Workers |-> [IdleWorker EXCEPT !.pc = "off"]]

SliceInit ==
  /\ assertsOn \in BOOLEAN
  /\ \E in \in SliceInputs : len = in[1] /\ stride = in[2]
  /\ shiftUB \in ShiftModes
  /\ queue = EmptyBag
  /\ scans = EmptyBag
  /\ counted = 0
  /\ starts = 0
  /\ npushed = 0
  /\ npopped = 0
  /\ wk = [w \in Workers |-> IdleWorker]

Fatal == \E w \in Workers : wk[w].pc = "fatal"

CanRun(w) == ~Fatal /\ (Concurrent \/ w = 1)

\* _task->push(G1TaskQueueEntry(array, chunk, pow)) onto bag q
Pushed(q, chunk, pow) == q (+) SetToBag({EntrySlice(ArrayOop, chunk, pow).val})

\* the assertions of the constructor hold, or the build has none
PushOk(chunk, pow) == ~assertsOn \/ EntrySlice(ArrayOop, chunk, pow).ok

\* _task->scan_objArray(array, from, to) returns the words it scanned
ScanCount(from, to) == to - from
Scanned(from, to) == scans (+) SetToBag({<<from, to>>})

\* process_obj, lines 42-46: the covering power of len
CoveringBits(n, ub) ==
  LET bits == log2i_graceful(n)
  IN  IF n # Shl32(1, bits, ub) THEN bits + 1 ELSE bits

\* ObjSplitStart without the overflow handling of lines 60-67
ObjSplitStart_NoPreSplit(bits, ub) ==
  [chunk |-> 1, pow |-> bits, last_idx |-> 0, push |-> FALSE, sane |-> TRUE]

\* ObjSplitStart with the pre-split for covering powers above 31 only
ObjSplitStart_PreSplitAbove31(bits, ub) ==
  IF bits > 31
    THEN [chunk |-> 2, pow |-> bits - 1, last_idx |-> Shl32(1, bits - 1, ub),
          push |-> TRUE, sane |-> bits = 31]
    ELSE [chunk |-> 1, pow |-> bits, last_idx |-> 0,
          push |-> FALSE, sane |-> TRUE]

\* process_obj, lines 55-67: the start of the split and the pre-split "push"
ObjSplitStart(bits, ub) ==
  IF bits >= 31
    THEN [chunk |-> 2, pow |-> bits - 1, last_idx |-> Shl32(1, bits - 1, ub),
          push |-> TRUE, sane |-> bits = 31]
    ELSE [chunk |-> 1, pow |-> bits, last_idx |-> 0,
          push |-> FALSE, sane |-> TRUE]

\* SplitMore without the test of the chunk number against chunk_size()
SplitMore_NoChunkLimit(chunk, pow, str, ub) ==
  Shl32(1, pow, ub) > str

\* the condition of both halving loops, lines 71-72 and 103
SplitMore(chunk, pow, str, ub) ==
  /\ Shl32(1, pow, ub) > str
  /\ Mul32(chunk, 2) < chunk_size

\* ObjSplitStep pushing the left half without comparing its end with len
ObjSplitStep_NoLenTest(chunk, pow, last_idx, n, ub) ==
  LET pow1           == pow - 1
      left_chunk     == Mul32(chunk, 2) - 1
      right_chunk    == Mul32(chunk, 2)
      left_chunk_end == Mul32(left_chunk, Shl32(1, pow1, ub))
  IN  [chunk |-> right_chunk, pow |-> pow1, last_idx |-> left_chunk_end,
       push |-> TRUE, pushed |-> left_chunk]

\* ObjSplitStep pushing the left half without recording where it ends
ObjSplitStep_KeepLastIdx(chunk, pow, last_idx, n, ub) ==
  LET pow1           == pow - 1
      left_chunk     == Mul32(chunk, 2) - 1
      right_chunk    == Mul32(chunk, 2)
      left_chunk_end == Mul32(left_chunk, Shl32(1, pow1, ub))
  IN  IF left_chunk_end < n
        THEN [chunk |-> right_chunk, pow |-> pow1, last_idx |-> last_idx,
              push |-> TRUE, pushed |-> left_chunk]
        ELSE [chunk |-> left_chunk, pow |-> pow1, last_idx |-> last_idx,
              push |-> FALSE, pushed |-> 0]

\* ObjSplitStep without the decrement of pow
ObjSplitStep_KeepPow(chunk, pow, last_idx, n, ub) ==
  LET left_chunk     == Mul32(chunk, 2) - 1
      right_chunk    == Mul32(chunk, 2)
      left_chunk_end == Mul32(left_chunk, Shl32(1, pow, ub))
  IN  IF left_chunk_end < n
        THEN [chunk |-> right_chunk, pow |-> pow, last_idx |-> left_chunk_end,
              push |-> TRUE, pushed |-> left_chunk]
        ELSE [chunk |-> left_chunk, pow |-> pow, last_idx |-> last_idx,
              push |-> FALSE, pushed |-> 0]

\* process_obj, lines 73-83: one iteration, for an array of n elements
ObjSplitStep(chunk, pow, last_idx, n, ub) ==
  LET pow1           == pow - 1
      left_chunk     == Mul32(chunk, 2) - 1
      right_chunk    == Mul32(chunk, 2)
      left_chunk_end == Mul32(left_chunk, Shl32(1, pow1, ub))
  IN  IF left_chunk_end < n
        THEN [chunk |-> right_chunk, pow |-> pow1, last_idx |-> left_chunk_end,
              push |-> TRUE, pushed |-> left_chunk]
        ELSE [chunk |-> left_chunk, pow |-> pow1, last_idx |-> last_idx,
              push |-> FALSE, pushed |-> 0]

\* SliceSplitStep pushing the right half, the one it goes on with
SliceSplitStep_PushRight(chunk, pow) ==
  LET pow1   == pow - 1
      chunk1 == Mul32(chunk, 2)
  IN  [chunk |-> chunk1, pow |-> pow1, pushed |-> chunk1]

\* SliceSplitStep without the decrement of pow
SliceSplitStep_KeepPow(chunk, pow) ==
  LET chunk1 == Mul32(chunk, 2)
  IN  [chunk |-> chunk1, pow |-> pow, pushed |-> chunk1 - 1]

\* process_slice, lines 104-106: one iteration
SliceSplitStep(chunk, pow) ==
  LET pow1   == pow - 1
      chunk1 == Mul32(chunk, 2)
  IN  [chunk |-> chunk1, pow |-> pow1, pushed |-> chunk1 - 1]

\* SliceRange with the range starting at chunk * 2^pow: chunks counted from 0
SliceRange_FromZero(chunk, pow, ub) ==
  LET csize == Shl32(1, pow, ub)
  IN  [from |-> Mul32(chunk, csize), to |-> Mul32(chunk + 1, csize)]

\* process_slice, lines 109-112: the range of <chunk, pow>
SliceRange(chunk, pow, ub) ==
  LET csize == Shl32(1, pow, ub)
  IN  [from |-> Mul32(chunk - 1, csize), to |-> Mul32(chunk, csize)]

\* process_slice, lines 115-117
SliceRangeSane(r, n) ==
  /\ 0 <= r.from /\ r.from < n
  /\ 0 < r.to /\ r.to <= n

Stop(w) == wk' = [wk EXCEPT ![w] = [@ EXCEPT !.pc = "fatal"]]

\* ProcessObjStart without the call of scan_objArray_start
ProcessObjStart_NoScanStart(w) ==
  /\ CanRun(w)
  /\ wk[w].pc = "idle"
  /\ starts = 0
  /\ LET s == ObjSplitStart(CoveringBits(len, shiftUB), shiftUB)
     IN  IF assertsOn /\ (~s.sane \/ (s.push /\ ~PushOk(1, s.pow)))
           THEN Stop(w) /\ UNCHANGED <<queue, npushed>>
           ELSE /\ wk' = [wk EXCEPT ![w] = [pc |-> "obj_loop", chunk |-> s.chunk,
                                            pow |-> s.pow, last_idx |-> s.last_idx,
                                            pushed |-> IF s.push THEN <<1, s.pow>> ELSE <<>>,
                                            args |-> <<>>, halves |-> <<>>]]
                /\ queue' = IF s.push THEN Pushed(queue, 1, s.pow) ELSE queue
                /\ npushed' = IF s.push THEN npushed + 1 ELSE npushed
  /\ UNCHANGED <<assertsOn, len, stride, shiftUB, scans, counted, starts, npopped,
                 entryVars, gcVars>>

\* process_obj up to the first test of the halving loop
ProcessObjStart(w) ==
  /\ CanRun(w)
  /\ wk[w].pc = "idle"
  /\ starts = 0
  /\ starts' = starts + 1
  /\ LET s == ObjSplitStart(CoveringBits(len, shiftUB), shiftUB)
     IN  IF assertsOn /\ (~s.sane \/ (s.push /\ ~PushOk(1, s.pow)))
           THEN Stop(w) /\ UNCHANGED <<queue, npushed>>
           ELSE /\ wk' = [wk EXCEPT ![w] = [pc |-> "obj_loop", chunk |-> s.chunk,
                                            pow |-> s.pow, last_idx |-> s.last_idx,
                                            pushed |-> IF s.push THEN <<1, s.pow>> ELSE <<>>,
                                            args |-> <<>>, halves |-> <<>>]]
                /\ queue' = IF s.push THEN Pushed(queue, 1, s.pow) ELSE queue
                /\ npushed' = IF s.push THEN npushed + 1 ELSE npushed
  /\ UNCHANGED <<assertsOn, len, stride, shiftUB, scans, counted, npopped,
                 entryVars, gcVars>>

\* one test of process_obj's loop, and the iteration when it holds
ProcessObjLoop(w) ==
  /\ CanRun(w)
  /\ wk[w].pc = "obj_loop"
  /\ IF SplitMore(wk[w].chunk, wk[w].pow, stride, shiftUB)
       THEN LET s == ObjSplitStep(wk[w].chunk, wk[w].pow, wk[w].last_idx, len, shiftUB)
            IN  IF s.push /\ ~PushOk(s.pushed, s.pow)
                  THEN Stop(w) /\ UNCHANGED <<queue, npushed>>
                  ELSE /\ wk' = [wk EXCEPT ![w] = [pc |-> "obj_loop", chunk |-> s.chunk,
                                                   pow |-> s.pow, last_idx |-> s.last_idx,
                                                   pushed |-> IF s.push THEN <<s.pushed, s.pow>>
                                                              ELSE @.pushed,
                                                   args |-> <<>>, halves |-> <<>>]]
                       /\ queue' = IF s.push THEN Pushed(queue, s.pushed, s.pow) ELSE queue
                       /\ npushed' = IF s.push THEN npushed + 1 ELSE npushed
       ELSE /\ wk' = [wk EXCEPT ![w] = [@ EXCEPT !.pc = "obj_tail"]]
            /\ UNCHANGED <<queue, npushed>>
  /\ UNCHANGED <<assertsOn, len, stride, shiftUB, scans, counted, starts, npopped,
                 entryVars, gcVars>>

\* the irregular tail, lines 86-91
ProcessObjTail(w) ==
  /\ CanRun(w)
  /\ wk[w].pc = "obj_tail"
  /\ LET from == wk[w].last_idx
     IN  IF from < len
           THEN scans' = Scanned(from, len) /\ counted' = counted + ScanCount(from, len)
           ELSE UNCHANGED <<scans, counted>>
  /\ wk' = [wk EXCEPT ![w] = IdleWorker]
  /\ UNCHANGED <<assertsOn, len, stride, shiftUB, queue, starts, npushed, npopped,
                 entryVars, gcVars>>

\* The entry a worker may take: any one when the workers run concurrently,
\* otherwise the one of least pow.
Takeable(e) ==
  /\ BagIn(e, queue)
  /\ Concurrent \/ \A f \in BagToSet(queue) :
                     \/ decode_pow(e) < decode_pow(f)
                     \/ decode_pow(e) = decode_pow(f) /\ decode_chunk(e) >= decode_chunk(f)

\* A worker takes an entry off the queue and enters
\* process_slice(entry.to_oop(), entry.chunk(), entry.pow()), line 99 included.
PopSlice(w) ==
  /\ CanRun(w)
  /\ wk[w].pc = "idle"
  /\ \E e \in BagToSet(queue) :
       /\ Takeable(e)
       /\ is_array_slice(e)
       /\ queue' = queue (-) SetToBag({e})
       /\ npopped' = npopped + 1
       /\ IF assertsOn /\ ~(stride > 0 /\ to_oop(e) = ArrayOop)
            THEN Stop(w)
            ELSE wk' = [wk EXCEPT ![w] = [pc |-> "slice_loop", chunk |-> chunk_of(e),
                                          pow |-> pow_of(e), last_idx |-> 0,
                                          pushed |-> <<>>,
                                          args |-> <<chunk_of(e), pow_of(e)>>,
                                          halves |-> <<>>]]
  /\ UNCHANGED <<assertsOn, len, stride, shiftUB, scans, counted, starts, npushed,
                 entryVars, gcVars>>

\* one test of process_slice's loop, and the iteration when it holds
ProcessSliceLoop(w) ==
  /\ CanRun(w)
  /\ wk[w].pc = "slice_loop"
  /\ IF SplitMore(wk[w].chunk, wk[w].pow, stride, shiftUB)
       THEN LET s == SliceSplitStep(wk[w].chunk, wk[w].pow)
            IN  IF ~PushOk(s.pushed, s.pow)
                  THEN Stop(w) /\ UNCHANGED <<queue, npushed>>
                  ELSE /\ wk' = [wk EXCEPT ![w] = [pc |-> "slice_loop", chunk |-> s.chunk,
                                                   pow |-> s.pow, last_idx |-> 0,
                                                   pushed |-> <<s.pushed, s.pow>>,
                                                   args |-> @.args,
                                                   halves |-> Append(@.halves,
                                                                     <<s.pushed, s.pow>>)]]
                       /\ queue' = Pushed(queue, s.pushed, s.pow)
                       /\ npushed' = npushed + 1
       ELSE /\ wk' = [wk EXCEPT ![w] = [@ EXCEPT !.pc = "slice_scan"]]
            /\ UNCHANGED <<queue, npushed>>
  /\ UNCHANGED <<assertsOn, len, stride, shiftUB, scans, counted, starts, npopped,
                 entryVars, gcVars>>

\* the scan of the entry's own range, lines 109-120
ProcessSliceScan(w) ==
  /\ CanRun(w)
  /\ wk[w].pc = "slice_scan"
  /\ LET r == SliceRange(wk[w].chunk, wk[w].pow, shiftUB)
     IN  IF assertsOn /\ ~SliceRangeSane(r, len)
           THEN Stop(w) /\ UNCHANGED <<scans, counted>>
           ELSE /\ scans' = Scanned(r.from, r.to)
                /\ counted' = counted + ScanCount(r.from, r.to)
                /\ wk' = [wk EXCEPT ![w] = IdleWorker]
  /\ UNCHANGED <<assertsOn, len, stride, shiftUB, queue, starts, npushed, npopped,
                 entryVars, gcVars>>

SliceNext ==
  \E w \in Workers :
    \/ ProcessObjStart(w)
    \/ ProcessObjLoop(w)
    \/ ProcessObjTail(w)
    \/ PopSlice(w)
    \/ ProcessSliceLoop(w)
    \/ ProcessSliceScan(w)

(***************************************************************************)
(* GenMarkSweep (SpecGC)                                                   *)
(***************************************************************************)
Objs == {"A", "B", "C"}

NullAddr == 0
ObjectAlignment == 8

\* The heap is a row of cells of two words; cell k starts at CellAddr(k).
\* Cells 1 .. OldCells are the old generation, the cells above them the young.
CellAddr(k) == k * 2 * ObjectAlignment
OldCells == 2
Cells == 1 .. Cardinality(Objs)
Addrs == {CellAddr(k) : k \in Cells}

is_object_aligned(a) == a % ObjectAlignment = 0

\* CompressedOops: a narrowOop is the address shifted right by the alignment
\* shift (heap base 0); a full-width oop is the address.
SlotKinds == {"oop", "narrowOop"}
EncodeOop(kind, a) == IF kind = "narrowOop" THEN a \div ObjectAlignment ELSE a
DecodeOop(kind, v) == IF kind = "narrowOop" THEN v * ObjectAlignment ELSE v

\* adjust_pointer forwarding every non-null slot, marked header or not
adjust_pointer_NoMarkTest(kind, slot, markedAt, forwardeeAt) ==
  IF slot # 0
    THEN LET obj     == DecodeOop(kind, slot)
             new_obj == forwardeeAt[obj]
         IN  [val |-> EncodeOop(kind, new_obj), stored |-> TRUE,
              ok |-> new_obj # NullAddr /\ is_object_aligned(new_obj)]
    ELSE [val |-> slot, stored |-> FALSE, ok |-> TRUE]

\* adjust_pointer forwarding the slots whose object's header is not marked
adjust_pointer_InvertedTest(kind, slot, markedAt, forwardeeAt) ==
  IF slot # 0
    THEN LET obj == DecodeOop(kind, slot)
         IN  IF obj \notin markedAt
               THEN LET new_obj == forwardeeAt[obj]
                    IN  [val |-> EncodeOop(kind, new_obj), stored |-> TRUE,
                         ok |-> new_obj # NullAddr /\ is_object_aligned(new_obj)]
               ELSE [val |-> slot, stored |-> FALSE, ok |-> TRUE]
    ELSE [val |-> slot, stored |-> FALSE, ok |-> TRUE]

\* MarkSweep::adjust_pointer(forwarding, p) on a slot that holds `slot`:
\* markedAt is the set of addresses whose object's header is_marked(),
\* forwardeeAt[obj] is forwarding->forwardee(obj). The result is the value the
\* slot holds afterwards, whether it was stored to, and whether the two
\* assertions on new_obj hold.
adjust_pointer(kind, slot, markedAt, forwardeeAt) ==
  IF slot # 0
    THEN LET obj == DecodeOop(kind, slot)
         IN  IF obj \in markedAt
               THEN LET new_obj == forwardeeAt[obj]
                    IN  [val |-> EncodeOop(kind, new_obj), stored |-> TRUE,
                         ok |-> new_obj # NullAddr /\ is_object_aligned(new_obj)]
               ELSE [val |-> slot, stored |-> FALSE, ok |-> TRUE]
    ELSE [val |-> slot, stored |-> FALSE, ok |-> TRUE]

(***************************************************************************)
(* adjust_pointer on one slot of an arbitrary heap (SpecAdjust)            *)
(***************************************************************************)
\* forwardee(obj) may be any cell, null, or an address off the alignment
Forwardees == Addrs \cup {NullAddr, CellAddr(1) + ObjectAlignment \div 2}

\* the collector when it is not in use
GCOff ==
  [pc |-> "off", sub |-> "", rp |-> "null", invocations |-> 0, log |-> <<>>,
   root |-> 0, weak |-> 0, final |-> 0,
   pos |-> [o \in Objs |-> 0], ref |-> [o \in Objs |-> 0],
   hdr |-> [o \in Objs |-> "neutral"], fwd |-> [o \in Objs |-> 0],
   stack |-> <<>>, objarray |-> <<>>,
   preserved |-> <<>>, pcount |-> 0, pmax |-> 0, overflow |-> <<>>,
   scratch |-> "none", saved_used |-> <<0, 0>>, cards |-> <<>>,
   cycle |-> FALSE]

\* adj.before keeps what the slot and the headers were when the call began
AdjOff ==
  [pc |-> "off", kind |-> "oop", slot |-> 0, marked |-> {},
   fwd |-> [a \in Addrs |-> NullAddr], before |-> [slot |-> 0, marked |-> {}]]

AdjIdle == adj = AdjOff

AdjInit ==
  /\ assertsOn \in BOOLEAN
  /\ \E kind \in SlotKinds, a \in Addrs \cup {NullAddr}, m \in SUBSET Addrs,
        f \in [Addrs -> Forwardees] :
       adj = [pc |-> "new", kind |-> kind, slot |-> EncodeOop(kind, a),
              marked |-> m, fwd |-> f,
              before |-> [slot |-> EncodeOop(kind, a), marked |-> m]]
  /\ gc = GCOff
  /\ EntryIdle
  /\ SliceIdle

AdjustPointer ==
  /\ adj.pc = "new"
  /\ LET r == adjust_pointer(adj.kind, adj.slot, adj.marked, adj.fwd)
     IN  IF assertsOn /\ ~r.ok
           THEN adj' = [adj EXCEPT !.pc = "fatal"]
           ELSE adj' = [adj EXCEPT !.pc = IF r.stored THEN "stored" ELSE "kept",
                                   !.slot = r.val]
  /\ UNCHANGED <<assertsOn, entryVars, sliceVars, gc>>

AdjNext == AdjustPointer

(***************************************************************************)
(* GenMarkSweep::invoke_at_safepoint (SpecGC)                              *)
(***************************************************************************)
MaxCollections == 2

\* the move scheduled before the adjustment
InvokeOrder_MoveBeforeAdjust ==
  << "save_used_regions", "allocate_stacks", "phase1", "phase2", "phase4",
     "phase3", "restore_marks", "save_marks", "deallocate_stacks",
     "flush_dedup", "card_table", "prune_nmethods", "clear_ref_processor",
     "update_capacity", "record_timestamp" >>

\* The statements of invoke_at_safepoint after the reference processor is
\* hooked up, in the order of the source.
InvokeOrder ==
  << "save_used_regions", "allocate_stacks", "phase1", "phase2", "phase3",
     "phase4", "restore_marks", "save_marks", "deallocate_stacks",
     "flush_dedup", "card_table", "prune_nmethods", "clear_ref_processor",
     "update_capacity", "record_timestamp" >>

\* the statement after stmt, "idle" after the last
After(stmt) ==
  LET i == CHOOSE k \in 1 .. Len(InvokeOrder) : InvokeOrder[k] = stmt
  IN  IF i = Len(InvokeOrder) THEN "idle" ELSE InvokeOrder[i + 1]

FirstSub(stmt) == IF stmt \in {"phase1", "phase3"} THEN "roots" ELSE ""

\* stmt returns: its events are logged and control moves to the next statement
Return(g, stmt, events) ==
  [g EXCEPT !.log = @ \o events, !.pc = After(stmt), !.sub = FirstSub(After(stmt))]

GCIdle == gc = GCOff /\ AdjIdle

\* The heaps a collection starts from: C, A in the old generation and B in
\* the young one; every object has one reference field; one strong root, one
\* weak root and the referent of one discovered FinalReference; some headers
\* carry a hash and must be preserved while they hold the mark. gc.cycle
\* records that the heap began as the cycle A -> B -> A held by the root,
\* with nothing keeping C alive.
InitPos == [o \in Objs |-> CellAddr(CASE o = "C" -> 1 [] o = "A" -> 2 [] OTHER -> 3)]
HashedSets == {{}, {"A"}, {"B", "C"}}

GCInit ==
  /\ assertsOn \in BOOLEAN
  /\ \E ref \in [Objs -> Addrs \cup {NullAddr}],
        root \in {NullAddr, InitPos["A"], InitPos["B"]},
        weak \in {NullAddr, InitPos["B"], InitPos["C"]},
        final \in {NullAddr, InitPos["C"]},
        hashed \in HashedSets :
       gc = [GCOff EXCEPT !.pc = "idle", !.root = root, !.weak = weak,
                          !.final = final, !.pos = InitPos, !.ref = ref,
                          !.hdr = [o \in Objs |-> IF o \in hashed THEN "hashed"
                                                  ELSE "neutral"],
                          !.cycle = /\ root = InitPos["A"]
                                    /\ ref["A"] = InitPos["B"]
                                    /\ ref["B"] = InitPos["A"]
                                    /\ final = NullAddr]
  /\ AdjIdle
  /\ EntryIdle
  /\ SliceIdle

GCFatal == gc' = [gc EXCEPT !.pc = "fatal"]
GCFrame == UNCHANGED <<assertsOn, entryVars, sliceVars, adj>>

\* the places invoke_at_safepoint can be called from: between collections,
\* and from inside one that is under way
Callable == gc.pc = "idle" \/ \E i \in 1 .. Len(InvokeOrder) : gc.pc = InvokeOrder[i]

\* invoke_at_safepoint hooking the reference processor up without looking at
\* the one in place
InvokeAtSafepoint_NoStompCheck(rp) ==
  /\ Callable
  /\ gc.pc = "idle" => gc.invocations < MaxCollections
  /\ IF assertsOn /\ rp = "null"
       THEN GCFatal
       ELSE IF gc.pc = "idle"
         THEN gc' = [gc EXCEPT !.rp = rp, !.invocations = @ + 1, !.log = <<>>,
                               !.cards = <<>>, !.pc = InvokeOrder[1],
                               !.sub = FirstSub(InvokeOrder[1])]
         ELSE gc' = [gc EXCEPT !.rp = rp, !.invocations = @ + 1, !.pc = "stomped"]
  /\ GCFrame

\* lines 66-84: the reference processor is hooked up, the count incremented.
\* Called between collections, the collection starts. Called while one is
\* under way, the assertion of line 77 stops the VM; a build without
\* assertions overwrites the reference processor in place and counts the
\* invocation, and what a collection started inside another one does from
\* there is not followed ("stomped").
InvokeAtSafepoint(rp) ==
  /\ Callable
  /\ gc.pc = "idle" => gc.invocations < MaxCollections
  /\ IF assertsOn /\ (gc.rp # "null" \/ rp = "null")
       THEN GCFatal
       ELSE IF gc.pc = "idle"
         THEN gc' = [gc EXCEPT !.rp = rp, !.invocations = @ + 1, !.log = <<>>,
                               !.cards = <<>>, !.pc = InvokeOrder[1],
                               !.sub = FirstSub(InvokeOrder[1])]
         ELSE gc' = [gc EXCEPT !.rp = rp, !.invocations = @ + 1, !.pc = "stomped"]
  /\ GCFrame

\* the objects in the old generation's cells, and in the young one's
UsedOld(g)   == Cardinality({o \in Objs : g.pos[o] # 0 /\ g.pos[o] <= CellAddr(OldCells)})
UsedYoung(g) == Cardinality({o \in Objs : g.pos[o] > CellAddr(OldCells)})

\* line 89
SaveUsedRegions ==
  /\ gc.pc = "save_used_regions"
  /\ gc' = Return([gc EXCEPT !.saved_used = <<UsedOld(gc), UsedYoung(gc)>>],
                  "save_used_regions", <<"save_used_regions">>)
  /\ GCFrame

\* A scratch block of ScratchWords words, when gather_scratch finds one.
ScratchWords == 2
HeapWordSize == 8
PreservedMarkSize == 16

\* allocate_stacks taking the capacity from num_words with or without a block
allocate_stacks_NoFallback(g, has_scratch, num_words) ==
  [g EXCEPT !.pmax = (num_words * HeapWordSize) \div PreservedMarkSize,
            !.scratch = IF has_scratch THEN "held" ELSE "none",
            !.preserved = <<>>,
            !.pcount = 0]

\* allocate_stacks, lines 149-165: num_words is 0 when there is no block
allocate_stacks(g, has_scratch, num_words) ==
  [g EXCEPT !.pmax = IF has_scratch
                       THEN (num_words * HeapWordSize) \div PreservedMarkSize
                       ELSE 0,
            !.scratch = IF has_scratch THEN "held" ELSE "none",
            !.preserved = <<>>,
            !.pcount = 0]

AllocateStacks ==
  /\ gc.pc = "allocate_stacks"
  /\ \E has_scratch \in BOOLEAN :
       gc' = Return(allocate_stacks(gc, has_scratch, ScratchWords),
                    "allocate_stacks", <<"allocate_stacks">>)
  /\ GCFrame

\* ---- marking (MarkSweep::mark_object, mark_and_push, follow_stack)
Marked(g) == {o \in Objs : g.hdr[o] = "marked"}

PreserveMark(g, o) ==
  IF g.pcount < g.pmax
    THEN [g EXCEPT !.preserved = Append(@, <<g.pos[o], g.hdr[o]>>), !.pcount = @ + 1]
    ELSE [g EXCEPT !.overflow = Append(@, <<g.pos[o], g.hdr[o]>>)]

MarkObject(g, o) ==
  [(IF g.hdr[o] = "hashed" THEN PreserveMark(g, o) ELSE g) EXCEPT !.hdr[o] = "marked"]

\* mark_and_push on a slot holding address a
MarkAndPush(g, a) ==
  LET os == {o \in Objs : a # NullAddr /\ g.pos[o] = a /\ g.hdr[o] # "marked"}
  IN  IF os = {} THEN g
      ELSE LET o == CHOOSE x \in os : TRUE
           IN  [MarkObject(g, o) EXCEPT !.stack = Append(@, o)]

\* one turn of follow_stack's loop: pop an object and follow its field
FollowOne(g) ==
  LET o == g.stack[Len(g.stack)]
  IN  MarkAndPush([g EXCEPT !.stack = SubSeq(@, 1, Len(@) - 1)], g.ref[o])

\* lines 185-195: process_roots with follow_root_closure
Phase1Roots ==
  /\ gc.pc = "phase1" /\ gc.sub = "roots"
  /\ gc' = [MarkAndPush(gc, gc.root) EXCEPT !.log = Append(@, "phase1"),
                                            !.sub = "roots_follow"]
  /\ GCFrame

\* follow_stack, run by follow_root and as the reference processor's
\* complete_gc closure
Phase1Follow ==
  /\ gc.pc = "phase1" /\ gc.sub \in {"roots_follow", "refs_follow"}
  /\ IF gc.stack = <<>>
       THEN gc' = [gc EXCEPT !.sub = IF @ = "roots_follow" THEN "refs" ELSE "check"]
       ELSE gc' = FollowOne(gc)
  /\ GCFrame

\* reference processing given a closure that follows nothing
RefProcCompleteGC_DoNothing == "do_nothing_cl"

\* the closure line 202 hands to the reference processor to complete marking
\* after keep_alive
RefProcCompleteGC == "follow_stack_closure"

\* lines 197-206: process_discovered_references keeps the referent of the
\* discovered FinalReference alive and completes the marking
Phase1Refs ==
  /\ gc.pc = "phase1" /\ gc.sub = "refs"
  /\ gc' = [MarkAndPush(gc, gc.final) EXCEPT
              !.sub = IF RefProcCompleteGC = "follow_stack_closure"
                        THEN "refs_follow" ELSE "check"]
  /\ GCFrame

\* line 209
Phase1Check ==
  /\ gc.pc = "phase1" /\ gc.sub = "check"
  /\ IF assertsOn /\ gc.stack # <<>>
       THEN GCFatal
       ELSE gc' = [gc EXCEPT !.sub = "weak"]
  /\ GCFrame

\* lines 211-214: weak roots whose referent is not alive are cleared
Phase1Weak ==
  /\ gc.pc = "phase1" /\ gc.sub = "weak"
  /\ gc' = [gc EXCEPT !.sub = "unload",
                      !.weak = IF \E o \in Marked(gc) : gc.pos[o] = @ THEN @ ELSE NullAddr]
  /\ GCFrame

\* lines 216-233
Phase1Unload ==
  /\ gc.pc = "phase1" /\ gc.sub = "unload"
  /\ gc' = Return(gc, "phase1", <<"phase1_done">>)
  /\ GCFrame

\* prepare_for_compaction: the marked objects, in address order, are given
\* the cells from the bottom of the old generation upwards
PlanForwarding(g) ==
  [o \in Objs |->
     IF o \in Marked(g)
       THEN CellAddr(Cardinality({x \in Marked(g) : g.pos[x] <= g.pos[o]}))
       ELSE NullAddr]

\* lines 237-242
Phase2 ==
  /\ gc.pc = "phase2"
  /\ gc' = Return([gc EXCEPT !.fwd = PlanForwarding(gc)], "phase2",
                  <<"phase2", "phase2_done">>)
  /\ GCFrame

\* ---- adjusting: what adjust_pointer sees of the heap
MarkedAddrs(g) == {g.pos[o] : o \in Marked(g)}
ForwardeeAt(g) ==
  [a \in Addrs |-> IF \E o \in Objs : g.pos[o] = a
                     THEN g.fwd[CHOOSE o \in Objs : g.pos[o] = a]
                     ELSE NullAddr]
Adjusted(g, a) == adjust_pointer("oop", a, MarkedAddrs(g), ForwardeeAt(g))

AdjustEntries(g, s) == [i \in 1 .. Len(s) |-> <<Adjusted(g, s[i][1]).val, s[i][2]>>]

\* lines 259-266: the roots; the discovered reference's referent with them
Phase3Roots ==
  /\ gc.pc = "phase3" /\ gc.sub = "roots"
  /\ IF assertsOn /\ ~(Adjusted(gc, gc.root).ok /\ Adjusted(gc, gc.final).ok)
       THEN GCFatal
       ELSE gc' = [gc EXCEPT !.log = Append(@, "phase3"),
                             !.root = Adjusted(gc, @).val,
                             !.final = Adjusted(gc, @).val,
                             !.sub = "weak_roots"]
  /\ GCFrame

\* line 268
Phase3WeakRoots ==
  /\ gc.pc = "phase3" /\ gc.sub = "weak_roots"
  /\ IF assertsOn /\ ~Adjusted(gc, gc.weak).ok
       THEN GCFatal
       ELSE gc' = [gc EXCEPT !.weak = Adjusted(gc, @).val, !.sub = "marks"]
  /\ GCFrame

\* line 270: adjust_marks
Phase3Marks ==
  /\ gc.pc = "phase3" /\ gc.sub = "marks"
  /\ gc' = [gc EXCEPT !.preserved = AdjustEntries(gc, @),
                      !.overflow = AdjustEntries(gc, @),
                      !.sub = "generations"]
  /\ GCFrame

\* lines 271-272: the fields of every live object
Phase3Generations ==
  /\ gc.pc = "phase3" /\ gc.sub = "generations"
  /\ IF assertsOn /\ \E o \in Marked(gc) : ~Adjusted(gc, gc.ref[o]).ok
       THEN GCFatal
       ELSE gc' = Return([gc EXCEPT !.ref = [o \in Objs |->
                                       IF o \in Marked(gc)
                                         THEN Adjusted(gc, gc.ref[o]).val
                                         ELSE gc.ref[o]]],
                         "phase3", <<"phase3_done">>)
  /\ GCFrame

\* lines 282-288: every live object moves to its forwardee and gets a fresh
\* header; the others are gone
Phase4 ==
  /\ gc.pc = "phase4"
  /\ gc' = Return([gc EXCEPT
                     !.pos = [o \in Objs |-> IF o \in Marked(gc) THEN gc.fwd[o] ELSE NullAddr],
                     !.ref = [o \in Objs |-> IF o \in Marked(gc) THEN gc.ref[o] ELSE NullAddr],
                     !.hdr = [o \in Objs |-> "neutral"],
                     !.fwd = [o \in Objs |-> NullAddr]],
                  "phase4", <<"phase4", "phase4_done">>)
  /\ GCFrame

\* restore_marks: every preserved header goes back to its object, and the
\* overflow stack is popped empty
RECURSIVE Restored(_, _, _)
Restored(hdr, pos, s) ==
  IF s = <<>> THEN hdr
  ELSE Restored([o \in Objs |-> IF pos[o] # NullAddr /\ pos[o] = s[1][1] THEN s[1][2] ELSE hdr[o]],
                pos, Tail(s))

\* line 107
RestoreMarks ==
  /\ gc.pc = "restore_marks"
  /\ gc' = Return([gc EXCEPT !.hdr = Restored(@, gc.pos, gc.preserved \o gc.overflow),
                             !.overflow = <<>>],
                  "restore_marks", <<"restore_marks">>)
  /\ GCFrame

\* line 111
SaveMarks ==
  /\ gc.pc = "save_marks"
  /\ gc' = Return(gc, "save_marks", <<"save_marks">>)
  /\ GCFrame

\* deallocate_stacks without the release of the scratch block
deallocate_stacks_NoRelease(g) ==
  [g EXCEPT !.overflow = <<>>,
            !.stack = <<>>,
            !.objarray = <<>>]

\* deallocate_stacks, lines 168-175
deallocate_stacks(g) ==
  [g EXCEPT !.scratch = IF @ = "held" THEN "released" ELSE @,
            !.overflow = <<>>,
            !.stack = <<>>,
            !.objarray = <<>>]

\* line 113
DeallocateStacks ==
  /\ gc.pc = "deallocate_stacks"
  /\ gc' = Return(deallocate_stacks(gc), "deallocate_stacks", <<"deallocate_stacks">>)
  /\ GCFrame

\* line 115
FlushDedup ==
  /\ gc.pc = "flush_dedup"
  /\ gc' = Return(gc, "flush_dedup", <<"flush_dedup">>)
  /\ GCFrame

\* the two card table actions taken for each other's case
CardTableAction_Swapped(young_used) ==
  IF young_used = 0 THEN "invalidate_or_clear" ELSE "clear_into_younger"

\* lines 121-132: the card table action for young_gen()->used()
CardTableAction(young_used) ==
  IF young_used = 0 THEN "clear_into_younger" ELSE "invalidate_or_clear"

CardTable ==
  /\ gc.pc = "card_table"
  /\ gc' = Return([gc EXCEPT !.cards = Append(@, CardTableAction(UsedYoung(gc)))],
                  "card_table", <<"card_table">>)
  /\ GCFrame

\* line 134
PruneNmethods ==
  /\ gc.pc = "prune_nmethods"
  /\ gc' = Return(gc, "prune_nmethods", <<"prune_nmethods">>)
  /\ GCFrame

\* line 137
ClearRefProcessor ==
  /\ gc.pc = "clear_ref_processor"
  /\ gc' = Return([gc EXCEPT !.rp = "null"], "clear_ref_processor",
                  <<"clear_ref_processor">>)
  /\ GCFrame

\* line 141
UpdateCapacity ==
  /\ gc.pc = "update_capacity"
  /\ gc' = Return(gc, "update_capacity", <<"update_capacity">>)
  /\ GCFrame

\* line 144
RecordTimestamp ==
  /\ gc.pc = "record_timestamp"
  /\ gc' = Return(gc, "record_timestamp", <<"record_timestamp">>)
  /\ GCFrame

GCNext ==
  \/ InvokeAtSafepoint("rp")
  \/ SaveUsedRegions
  \/ AllocateStacks
  \/ Phase1Roots
  \/ Phase1Follow
  \/ Phase1Refs
  \/ Phase1Check
  \/ Phase1Weak
  \/ Phase1Unload
  \/ Phase2
  \/ Phase3Roots
  \/ Phase3WeakRoots
  \/ Phase3Marks
  \/ Phase3Generations
  \/ Phase4
  \/ RestoreMarks
  \/ SaveMarks
  \/ DeallocateStacks
  \/ FlushDedup
  \/ CardTable
  \/ PruneNmethods
  \/ ClearRefProcessor
  \/ UpdateCapacity
  \/ RecordTimestamp

(***************************************************************************)
(* The specifications                                                      *)
(***************************************************************************)
EntryInit ==
  /\ assertsOn \in BOOLEAN
  /\ ein \in EntryInputs
  /\ epc = "new"
  /\ entry = {}
  /\ SliceIdle
  /\ GCIdle

SpecEntry == EntryInit /\ [][EntryNext]_vars

Init == SliceInit /\ EntryIdle /\ GCIdle
Next == SliceNext
Spec == Init /\ [][Next]_vars

\* The arrays whose slicing is followed to its end: the short ones, sliced by
\* all workers, and three sliced by worker 1 alone: the default stride, an
\* array cut down to the chunk limit, and one of covering power 31.
MaxFairLen == 3
FairInputs ==
  ((0 .. MaxFairLen) \X (1 .. MaxSmallStride))
    \cup {<<1000, 16>>, <<1024, 1>>, <<2147483647, 536870912>>}

FairInit == Init /\ <<len, stride>> \in FairInputs

\* The slicer with every worker scheduled again and again: a worker that
\* stays at a statement it can execute does execute it. For the start of
\* process_obj, its tail scan and the scan of process_slice this is weak
\* fairness as such; for the taking of an entry and for the test of a
\* halving loop it is weak fairness with the enabling condition written out:
\* CanPop(w) for PopSlice(w), which counts the entry it takes, and AtLoop(w)
\* for LoopStep(w), which either leaves the loop or changes pow.
Straight(w) ==
  \/ ProcessObjStart(w)
  \/ ProcessObjTail(w)
  \/ ProcessSliceScan(w)
CanPop(w) ==
  /\ CanRun(w)
  /\ wk[w].pc = "idle"
  /\ \E e \in BagToSet(queue) : Takeable(e) /\ is_array_slice(e)
LoopStep(w) == ProcessObjLoop(w) \/ ProcessSliceLoop(w)
AtLoop(w) == CanRun(w) /\ wk[w].pc \in {"obj_loop", "slice_loop"}

SpecFair ==
  /\ FairInit
  /\ [][Next]_vars
  /\ \A w \in Workers : WF_vars(Straight(w))
  /\ \A w \in Workers : []<>(~CanPop(w)) \/ []<><<PopSlice(w)>>_vars
  /\ \A w \in Workers : []<>(~AtLoop(w)) \/ []<><<LoopStep(w)>>_vars

SpecAdjust == AdjInit /\ [][AdjNext]_vars

SpecGC == GCInit /\ [][GCNext]_vars


(***************************************************************************)
(* Claims about the slicer (checked under Spec)                            *)
(***************************************************************************)
\* process_obj has run and every entry pushed has been through process_slice
SliceDone ==
  /\ starts = 1
  /\ queue = EmptyBag
  /\ \A w \in Workers : wk[w].pc = "idle"

Ranges == BagToSet(scans)

\* every range scanned lies in the array, is not empty and was scanned once
RangesInside ==
  \A r \in Ranges : CopiesIn(r, scans) = 1 /\ 0 <= r[1] /\ r[1] < r[2] /\ r[2] <= len

RangesDisjoint ==
  \A r, t \in Ranges : r = t \/ r[2] <= t[1] \/ t[2] <= r[1]

\* the ranges reach from 0 to len without a gap
RangesChain ==
  /\ len > 0 => \E r \in Ranges : r[1] = 0
  /\ \A r \in Ranges : r[2] = len \/ \E t \in Ranges : t[1] = r[2]

\* the number of scan calls that cover index i
ScansOf(i) ==
  LET hit == {r \in Ranges : r[1] <= i /\ i < r[2]}
      RECURSIVE Sum(_)
      Sum(S) == IF S = {} THEN 0
                ELSE LET r == CHOOSE x \in S : TRUE
                     IN  CopiesIn(r, scans) + Sum(S \ {r})
  IN  Sum(hit)

\* C1: once process_obj has run and process_slice has run on every entry
\* pushed, in any order, the ranges handed to scan_objArray partition
\* [0, len): they lie inside the array, no two overlap and they leave no gap,
\* so every index is scanned exactly once. While slicing is under way no index
\* is scanned twice and none outside the array.
C1_Partition ==
  /\ SliceDone => RangesInside /\ RangesDisjoint /\ RangesChain
  /\ Concurrent => /\ \A i \in 0 .. (len - 1) : ScansOf(i) <= 1
                   /\ SliceDone => \A i \in 0 .. (len - 1) : ScansOf(i) = 1
                   /\ \A r \in Ranges : 0 <= r[1] /\ r[2] <= len

\* an array past the chunk limit has been sliced to the end by entries that
\* process_slice itself pushed
C1_Witness ==
  /\ SliceDone
  /\ len = 1025
  /\ npopped > 10
  /\ BagCardinality(scans) > 10

\* The (chunk, pow) pairs handed to push by the calls under way.
PushedNow == {wk[w].pushed : w \in Workers} \ {<<>>}

\* C5: every descriptor pushed by process_obj or process_slice has a chunk
\* number in 1 .. 1023, below chunk_size(), and a pow in 0 .. 31; no entry
\* with chunk 0 is on the queue or is handed to process_slice.
C5_ChunkNumbers ==
  /\ \A a \in PushedNow :
       /\ 1 <= a[1] /\ a[1] <= 1023 /\ a[1] < chunk_size
       /\ 0 <= a[2] /\ a[2] <= 31
  /\ \A e \in BagToSet(queue) : is_array_slice(e) /\ chunk_of(e) >= 1
  /\ \A w \in Workers :
       wk[w].pc \in {"slice_loop", "slice_scan"} => wk[w].chunk >= 1

\* process_slice has pushed chunk 1021, the largest chunk number it pushes
C5_Witness ==
  \E w \in Workers :
    /\ wk[w].pc = "slice_loop"
    /\ wk[w].pushed # <<>>
    /\ wk[w].pushed[1] = 1021

\* <chunk, pow> denotes a full range inside an array of n elements
FullRange(chunk, pow, n) ==
  /\ chunk >= 1
  /\ 0 <= pow /\ pow <= 30
  /\ chunk <= n \div Pow2(pow)

\* C6: every descriptor pushed for an array of length len denotes a range
\* inside the array, 0 <= (chunk-1)*2^pow and chunk*2^pow <= len; so the range
\* process_slice computes passes its from/to assertions, and no assertion of
\* the slicer stops the VM.
C6_FullRanges ==
  /\ \A a \in PushedNow : FullRange(a[1], a[2], len)
  /\ \A e \in BagToSet(queue) : FullRange(chunk_of(e), pow_of(e), len)
  /\ \A w \in Workers :
       wk[w].pc = "slice_scan" =>
         SliceRangeSane(SliceRange(wk[w].chunk, wk[w].pow, shiftUB), len)
  /\ ~Fatal

\* process_obj declined a left half that ends past the array, and has pushed
\* one that fits since
C6_Witness ==
  \E w \in Workers :
    /\ wk[w].pc = "obj_loop"
    /\ len = 1000
    /\ wk[w].pushed = <<31, 5>>

\* C7: when the covering power is 31 (len > 2^30) process_obj pushes exactly
\* one entry, (array, 1, 30), before the halving loop and goes on with
\* chunk = 2, pow = 30 and last_idx = 2^30; for a shorter array it pushes
\* nothing before the loop and starts at chunk 1. Every chunk number in use
\* afterwards stays below 1024.
C7_PreSplit ==
  [][\A w \in Workers :
       /\ ProcessObjStart(w) =>
            IF len > Pow2(30)
              THEN /\ wk'[w].pc = "obj_loop"
                   /\ wk'[w].chunk = 2 /\ wk'[w].pow = 30 /\ wk'[w].last_idx = Pow2(30)
                   /\ BagCardinality(queue') = 1
                   /\ \A e \in BagToSet(queue') :
                        to_oop(e) = ArrayOop /\ chunk_of(e) = 1 /\ pow_of(e) = 30
                   /\ npushed' = 1
              ELSE /\ wk'[w].pc = "obj_loop"
                   /\ wk'[w].chunk = 1 /\ wk'[w].last_idx = 0
                   /\ queue' = EmptyBag
                   /\ npushed' = 0
       /\ wk'[w].chunk < 1024
       /\ wk'[w].pushed # <<>> => wk'[w].pushed[1] < 1024]_vars

\* an array of covering power 31 has been pre-split and is in the halving loop
C7_Witness ==
  /\ len = 1073741825
  /\ wk[1].pc = "obj_loop"
  /\ wk[1].chunk = 2 /\ wk[1].pow = 30 /\ wk[1].last_idx = 1073741824
  /\ BagCardinality(queue) = 1

\* the workers that hold an entry they took and have not scanned yet
Holding == {w \in Workers : wk[w].pc \in {"slice_loop", "slice_scan"}}

\* C8: with several workers popping entries and running process_slice in any
\* interleaving, every entry pushed is either still on the queue or was
\* taken by one worker, once; each entry taken leads to one scan by the
\* worker that took it; no index is scanned twice; and when the queue is
\* empty and every worker is idle, every index of [0, len) has been scanned
\* and as many entries were taken as were pushed.
C8_Workers ==
  /\ npushed = npopped + BagCardinality(queue)
  /\ BagCardinality(scans) + Cardinality(Holding)
       = npopped + (IF \A w \in Workers : wk[w].pc \notin {"obj_loop", "obj_tail"}
                    THEN (IF starts = 1 /\ len > 0 THEN 1 ELSE 0) ELSE 0)
  /\ Concurrent => \A i \in 0 .. (len - 1) : ScansOf(i) <= 1
  /\ SliceDone =>
       /\ npushed = npopped
       /\ RangesDisjoint
       /\ Concurrent => \A i \in 0 .. (len - 1) : ScansOf(i) = 1

\* two workers are inside process_slice at once while a further entry waits
C8_Witness ==
  /\ Cardinality(Holding) >= 2
  /\ queue # EmptyBag
  /\ \E w \in Holding : wk[w].pushed # <<>>


(***************************************************************************)
(* Claims about G1TaskQueueEntry (checked under SpecEntry)                 *)
(***************************************************************************)
\* a reference that fits the 49-bit field with its two low tag bits clear
FitsRefField(p) == p \subseteq (2 .. (oop_bits - 1))

\* C2: for every array reference that fits the reference field, every chunk
\* in 1 .. 1023 and every pow in 0 .. 31, G1TaskQueueEntry(array, chunk, pow)
\* is built (no assertion fails) and decodes to the same triple, reports
\* is_array_slice(), and the three encoded fields share no bit.
C2_ChunkRoundTrip ==
  (/\ epc # "new"
   /\ ein.kind = "slice"
   /\ FitsRefField(ein.p)
   /\ ein.chunk \in 1 .. 1023
   /\ ein.pow \in 0 .. 31)
  => /\ epc = "built"
     /\ to_oop(entry) = ein.p
     /\ chunk_of(entry) = ein.chunk
     /\ pow_of(entry) = ein.pow
     /\ is_array_slice(entry)
     /\ ~is_oop(entry)
     /\ WAnd(encode_oop(ein.p, OopTag), encode_chunk(ein.chunk)) = {}
     /\ WAnd(encode_oop(ein.p, OopTag), encode_pow(ein.pow)) = {}
     /\ WAnd(encode_chunk(ein.chunk), encode_pow(ein.pow)) = {}

\* the largest reference, chunk and pow have been packed into one entry
C2_Witness ==
  /\ epc = "built"
  /\ ein.kind = "slice"
  /\ ein.p = 2 .. 48
  /\ ein.chunk = 1023
  /\ ein.pow = 31
  /\ entry = 2 .. 63

\* C3: an entry built from a plain reference that fits the reference field
\* decodes to the same reference in the same form (full-width through
\* to_oop_ptr, narrow through to_narrow_oop_ptr), is not an array slice and
\* has chunk() = 0 and pow() = 0.
C3_PlainRoundTrip ==
  (/\ epc # "new"
   /\ ein.kind \in {"oop", "oop_ptr", "narrow_oop_ptr"}
   /\ FitsRefField(ein.p))
  => /\ epc = "built"
     /\ ~is_array_slice(entry)
     /\ is_oop(entry)
     /\ chunk_of(entry) = 0
     /\ pow_of(entry) = 0
     /\ ein.kind \in {"oop", "oop_ptr"} =>
          /\ has_tag(entry, OopTag)
          /\ to_oop_ptr(entry) = ein.p
          /\ to_oop(entry) = ein.p
          /\ is_oop_ptr(entry) /\ ~is_narrow_oop_ptr(entry)
     /\ ein.kind = "narrow_oop_ptr" =>
          /\ has_tag(entry, NarrowOopTag)
          /\ to_narrow_oop_ptr(entry) = ein.p
          /\ is_narrow_oop_ptr(entry) /\ ~is_oop_ptr(entry)

\* a narrow reference at the top of the field has been packed with its tag
C3_Witness ==
  /\ epc = "built"
  /\ ein.kind = "narrow_oop_ptr"
  /\ ein.p = {48}
  /\ entry = {0, 48}

(***************************************************************************)
(* Claims about the collector                                              *)
(***************************************************************************)
IsPrefix(s, t) == Len(s) <= Len(t) /\ s = SubSeq(t, 1, Len(s))

\* what one collection does, by name, up to the release of the stacks
PhaseEvents ==
  << "save_used_regions", "allocate_stacks", "phase1", "phase1_done",
     "phase2", "phase2_done", "phase3", "phase3_done", "phase4",
     "phase4_done" >>
IsPhaseEvent(e) == \E i \in 1 .. Len(PhaseEvents) : PhaseEvents[i] = e
PhaseLog == SelectSeq(gc.log, IsPhaseEvent)
Collected == gc.pc = "idle" /\ gc.invocations > 0

\* C4: within one invoke_at_safepoint the used regions are saved and the
\* stacks allocated before phase 1, then phases 1, 2, 3, 4 each start after
\* the one before has completed, each runs exactly once, none is skipped or
\* re-entered, and the collector is back to idle with all of them done.
C4_PhaseOrder ==
  /\ IsPrefix(PhaseLog, PhaseEvents)
  /\ Collected => PhaseLog = PhaseEvents
  /\ gc.pc = "phase1" => PhaseLog \in {SubSeq(PhaseEvents, 1, 2), SubSeq(PhaseEvents, 1, 3)}
  /\ gc.pc = "phase2" => PhaseLog = SubSeq(PhaseEvents, 1, 4)
  /\ gc.pc = "phase3" => PhaseLog \in {SubSeq(PhaseEvents, 1, 6), SubSeq(PhaseEvents, 1, 7)}
  /\ gc.pc = "phase4" => PhaseLog = SubSeq(PhaseEvents, 1, 8)

\* a second collection has run all its phases and returned
C4_Witness == Collected /\ gc.invocations = 2 /\ PhaseLog = PhaseEvents

\* every marked object's field refers to nothing or to a marked object
MarkingClosed ==
  \A o \in Marked(gc) :
    gc.ref[o] = NullAddr \/ \E x \in Marked(gc) : gc.pos[x] = gc.ref[o]

\* C9: once phase 1 has marked from the roots and processed the discovered
\* references, the marking stack is empty and the marking is transitively
\* closed; this is so at the assertion and while weak processing and class
\* unloading run.
C9_MarkingStackEmpty ==
  (gc.pc = "phase1" /\ gc.sub \in {"check", "weak", "unload"}) =>
    (gc.stack = <<>> /\ MarkingClosed)

\* nothing is reachable from the root; reference processing kept C alive and
\* completing the marking reached A from it
C9_Witness ==
  /\ gc.pc = "phase1" /\ gc.sub = "weak"
  /\ gc.root = NullAddr /\ gc.final = gc.pos["C"]
  /\ gc.ref["C"] = gc.pos["A"]
  /\ Marked(gc) = {"A", "C"}

\* C10: adjust_pointer leaves a null slot as it is; a slot that refers to an
\* object with a marked header is stored to and then holds that object's
\* forwardee, which is non-null and aligned whenever the assertions are
\* compiled in; a slot that refers to an object with an unmarked header is
\* left as it is; and no header is written.
C10_AdjustPointer ==
  adj.pc \in {"stored", "kept"} =>
    LET obj == DecodeOop(adj.kind, adj.before.slot)
    IN  /\ adj.before.slot = 0 => (adj.pc = "kept" /\ adj.slot = 0)
        /\ (adj.before.slot # 0 /\ obj \in adj.before.marked) =>
             /\ adj.pc = "stored"
             /\ adj.slot = EncodeOop(adj.kind, adj.fwd[obj])
             /\ assertsOn => (adj.fwd[obj] # NullAddr /\ is_object_aligned(adj.fwd[obj]))
        /\ (adj.before.slot # 0 /\ obj \notin adj.before.marked) =>
             (adj.pc = "kept" /\ adj.slot = adj.before.slot)
        /\ adj.marked = adj.before.marked

\* a narrowOop slot that referred to a marked object now refers to its
\* forwardee, another cell
C10_Witness ==
  /\ adj.pc = "stored" /\ adj.kind = "narrowOop"
  /\ DecodeOop(adj.kind, adj.before.slot) = CellAddr(3)
  /\ CellAddr(3) \in adj.before.marked
  /\ adj.fwd[CellAddr(3)] = CellAddr(1)
  /\ DecodeOop(adj.kind, adj.slot) = CellAddr(1)

InLog(e) == \E i \in 1 .. Len(gc.log) : gc.log[i] = e

\* C11: the card table is acted on once per collection, after phase 4, by
\* exactly one call: clear_into_younger when the young generation is empty
\* after the collection, invalidate_or_clear otherwise.
C11_CardTableDecision ==
  /\ Len(gc.cards) <= 1
  /\ InLog("card_table") <=> Len(gc.cards) = 1
  /\ Len(gc.cards) = 1 =>
       /\ InLog("phase4_done")
       /\ gc.cards[1] = (IF UsedYoung(gc) = 0 THEN "clear_into_younger"
                         ELSE "invalidate_or_clear")

\* a collection that found objects in the young generation and left none
\* there has cleared the cards
C11_Witness ==
  /\ Collected
  /\ gc.saved_used[2] > 0
  /\ UsedYoung(gc) = 0
  /\ gc.cards = <<"clear_into_younger">>

Collecting == \E i \in 1 .. Len(InvokeOrder) : gc.pc = InvokeOrder[i]

SliceBuilt == epc # "new" /\ ein.kind = "slice"

\* the three arguments of the chunk constructor fit their fields
FitsFields ==
  /\ FitsRefField(ein.p)
  /\ ein.chunk \in 0 .. 1023
  /\ ein.pow \in 0 .. 31

DecodesAsSupplied ==
  /\ to_oop(entry) = ein.p
  /\ chunk_of(entry) = ein.chunk
  /\ pow_of(entry) = ein.pow

C14_ChunkZeroMeansPlain ==
  (epc = "built" /\ assertsOn) =>
    /\ is_array_slice(entry) <=> chunk_of(entry) # 0
    /\ is_oop(entry) => chunk_of(entry) = 0

\* the chunk constructor has accepted chunk 0 with a pow that is not 0, all
\* its assertions holding, and the entry is an array slice of chunk 0
C14_Witness ==
  /\ epc = "built" /\ assertsOn
  /\ ein.kind = "slice" /\ ein.chunk = 0 /\ ein.pow = 15
  /\ is_array_slice(entry)
  /\ chunk_of(entry) = 0

(***************************************************************************)
(* Further claims about the slicer                                         *)
(***************************************************************************)
\* C15: process_obj returns the count of its own scan of the tail
\* [last_idx, len), 0 when there is none; process_slice returns the count of
\* its own scan of [from, to); nothing else is counted; and with a scan that
\* returns to - from the returned values of all the calls for one array add
\* up to len.
C15_CountsSum ==
  /\ [](SliceDone => counted = len)
  /\ [][\A w \in Workers :
         /\ ProcessObjTail(w) =>
              counted' - counted =
                (IF wk[w].last_idx < len THEN len - wk[w].last_idx ELSE 0)
         /\ (ProcessSliceScan(w) /\ wk'[w].pc # "fatal") =>
              LET r == SliceRange(wk[w].chunk, wk[w].pow, shiftUB)
              IN  counted' - counted = r.to - r.from
         /\ (ProcessObjStart(w) \/ ProcessObjLoop(w) \/ PopSlice(w)
               \/ ProcessSliceLoop(w)) => counted' = counted]_vars

\* the array of 1000 elements with stride 16 has been scanned to the end
C15_Witness ==
  /\ SliceDone
  /\ len = 1000 /\ stride = 16
  /\ counted = 1000
  /\ BagCardinality(scans) > 1

\* C16: scan_objArray_start is called once for the array, by process_obj,
\* before anything is pushed or scanned: whenever an entry has been pushed, a
\* range scanned or a worker is inside process_obj or process_slice, the
\* calls so far are exactly one, and process_slice adds none.
C16_ScanStartOnce ==
  /\ starts <= 1
  /\ (npushed > 0 \/ npopped > 0 \/ scans # EmptyBag \/ queue # EmptyBag) => starts = 1
  /\ \A w \in Workers : wk[w].pc \notin {"idle", "off"} => starts = 1

\* entries of the array have been pushed, taken and scanned after the one call
C16_Witness ==
  /\ starts = 1
  /\ npopped >= 2
  /\ BagCardinality(scans) >= 2
  /\ \E w \in Workers : wk[w].pc = "slice_loop"


(***************************************************************************)
(* Further claims about the collector                                      *)
(***************************************************************************)
\* position of the first occurrence of e in the log of the collection, 0
\* when it has not happened
LogPos(e) ==
  IF InLog(e) THEN CHOOSE i \in 1 .. Len(gc.log) :
                     gc.log[i] = e /\ \A j \in 1 .. i - 1 : gc.log[j] # e
  ELSE 0
Precedes(a, b) == InLog(b) => (InLog(a) /\ LogPos(a) < LogPos(b))

\* C17: restore_marks runs after phase 4 and before deallocate_stacks, and
\* deallocate_stacks before the card table decision, the capacity update and
\* the timestamp; from deallocate_stacks on the scratch block is not held and
\* the overflow stack, the marking stack and the object-array stack are
\* empty; a collection back at idle has done both.
C17_DrainedAndReleased ==
  /\ Precedes("phase4_done", "restore_marks")
  /\ Precedes("restore_marks", "deallocate_stacks")
  /\ Precedes("deallocate_stacks", "card_table")
  /\ Precedes("deallocate_stacks", "update_capacity")
  /\ Precedes("deallocate_stacks", "record_timestamp")
  /\ InLog("deallocate_stacks") =>
       /\ gc.scratch # "held"
       /\ gc.overflow = <<>>
       /\ gc.stack = <<>>
       /\ gc.objarray = <<>>
  /\ Collected => (InLog("restore_marks") /\ InLog("deallocate_stacks"))

\* a collection that was given a scratch block and preserved a header in it
\* is back at idle with the block released and the header restored
C17_Witness ==
  /\ Collected
  /\ gc.scratch = "released"
  /\ gc.pcount > 0
  /\ \E o \in Objs : gc.pos[o] # NullAddr /\ gc.hdr[o] = "hashed"


\* a statement of the collection under way
CollectStep ==
  \/ SaveUsedRegions \/ AllocateStacks
  \/ Phase1Roots \/ Phase1Follow \/ Phase1Refs \/ Phase1Check \/ Phase1Weak
  \/ Phase1Unload
  \/ Phase2
  \/ Phase3Roots \/ Phase3WeakRoots \/ Phase3Marks \/ Phase3Generations
  \/ Phase4
  \/ RestoreMarks \/ SaveMarks \/ DeallocateStacks \/ FlushDedup \/ CardTable
  \/ PruneNmethods \/ ClearRefProcessor \/ UpdateCapacity \/ RecordTimestamp

\* C18: with no scratch block allocate_stacks sets the capacity for
\* preserved marks to 0, with a block to num_words * HeapWordSize /
\* sizeof(PreservedMark); either way the preserved count starts at 0. With
\* or without a block every statement of the
\* collection has a next one until the collection is back at idle, none of
\* them ends in a fatal error, and the collection at idle has run the four
\* phases.
C18_ScratchFallback ==
  /\ []((Collecting /\ InLog("allocate_stacks")) =>
          /\ gc.scratch = "none" => gc.pmax = 0
          /\ gc.scratch # "none" =>
               gc.pmax = (ScratchWords * HeapWordSize) \div PreservedMarkSize
          /\ (gc.pc = "phase1" /\ gc.sub = "roots") =>
               (gc.pcount = 0 /\ gc.preserved = <<>>))
  /\ [](Collecting => ENABLED CollectStep)
  /\ [](Collected => PhaseLog = PhaseEvents)
  /\ [][CollectStep => gc'.pc # "fatal"]_vars

\* a collection that was given no scratch block has preserved the header of
\* a survivor on the overflow stack alone and is back at idle with the four
\* phases run and the header restored
C18_Witness ==
  /\ Collected
  /\ gc.scratch = "none"
  /\ gc.pmax = 0 /\ gc.pcount = 0
  /\ PhaseLog = PhaseEvents
  /\ \E o \in Objs : gc.pos[o] # NullAddr /\ gc.hdr[o] = "hashed"


\* the first collection of the heap that began as the cycle A -> B -> A held
\* by the root, C unreachable
CycleCollection == gc.cycle /\ gc.invocations = 1
Live == {o \in Objs : gc.pos[o] # NullAddr}
Pointers == {gc.root, gc.weak, gc.final} \cup {gc.ref[o] : o \in Live}

\* C19: in the full collection of the cycle A -> B -> A reachable from a root
\* with C unreachable: once phase 1 is done exactly A and B are marked; once
\* phase 2 is done exactly A and B have a forwardee, each its own; once
\* phase 3 is done the root and the fields of A and B hold the forwardee of
\* the object they referred to; once phase 4 is done A and B are at those
\* addresses, the root and both fields refer to where A and B now are, no
\* pointer refers to anything but a live object, C is gone and the cell it
\* occupied is in use again.
C19_CycleCollected ==
  CycleCollection =>
    /\ (InLog("phase1_done") /\ ~InLog("phase4")) => Marked(gc) = {"A", "B"}
    /\ (InLog("phase2_done") /\ ~InLog("phase4")) =>
         /\ {o \in Objs : gc.fwd[o] # NullAddr} = {"A", "B"}
         /\ gc.fwd["A"] # gc.fwd["B"]
    /\ (InLog("phase3_done") /\ ~InLog("phase4")) =>
         /\ gc.root = gc.fwd["A"]
         /\ gc.ref["A"] = gc.fwd["B"]
         /\ gc.ref["B"] = gc.fwd["A"]
    /\ InLog("phase4_done") =>
         /\ Live = {"A", "B"}
         /\ gc.root = gc.pos["A"]
         /\ gc.ref["A"] = gc.pos["B"]
         /\ gc.ref["B"] = gc.pos["A"]
         /\ \A p \in Pointers : p = NullAddr \/ \E o \in Live : gc.pos[o] = p
         /\ gc.pos["A"] # InitPos["A"] /\ gc.pos["B"] # InitPos["B"]
         /\ InitPos["C"] \in {gc.pos["A"], gc.pos["B"]}

\* the collection of the cycle is back at idle: A has moved into the cell
\* that was C's, B into the one that was A's, and they still refer to each
\* other
C19_Witness ==
  /\ CycleCollection
  /\ Collected
  /\ gc.pos = [o \in Objs |-> CASE o = "A" -> CellAddr(1) [] o = "B" -> CellAddr(2)
                                [] OTHER -> NullAddr]
  /\ gc.root = CellAddr(1)
  /\ gc.ref["A"] = CellAddr(2) /\ gc.ref["B"] = CellAddr(1)


(***************************************************************************)
(* The split identity of process_slice (checked under Spec)               *)
(***************************************************************************)
\* the interval of the descriptor d = <<chunk, pow>>
IntervalFrom(d) == (d[1] - 1) * Pow2(d[2])
IntervalTo(d) == d[1] * Pow2(d[2])

\* the intervals of the descriptors in s are not empty, follow one another
\* without gap or overlap, and run from the start to the end of d's interval
Tiles(s, d) ==
  /\ s # <<>>
  /\ IntervalFrom(s[1]) = IntervalFrom(d)
  /\ IntervalTo(s[Len(s)]) = IntervalTo(d)
  /\ \A i \in 1 .. Len(s) : IntervalFrom(s[i]) < IntervalTo(s[i])
  /\ \A i \in 1 .. Len(s) - 1 : IntervalTo(s[i]) = IntervalFrom(s[i + 1])

InSlice(w) == wk[w].pc \in {"slice_loop", "slice_scan"}

\* C20: a call of process_slice entered with <C, P> has, after n iterations
\* of its loop, pushed <2^k * C - 1, P - k> for k = 1 .. n and nothing else,
\* and goes on with <2^n * C, P - n>; the intervals of the pushed descriptors
\* followed by the interval of the one it goes on with are not empty, do not
\* overlap and make up [(C - 1) * 2^P, C * 2^P); when the loop is left the
\* range about to be scanned is the interval of <2^n * C, P - n>.
C20_SplitIdentity ==
  \A w \in Workers :
    InSlice(w) =>
      LET C == wk[w].args[1]
          P == wk[w].args[2]
          n == Len(wk[w].halves)
          rest == <<wk[w].chunk, wk[w].pow>>
      IN  /\ n <= P
          /\ \A k \in 1 .. n : wk[w].halves[k] = <<Pow2(k) * C - 1, P - k>>
          /\ rest = <<Pow2(n) * C, P - n>>
          /\ Tiles(wk[w].halves \o <<rest>>, wk[w].args)
          /\ wk[w].pc = "slice_scan" =>
               SliceRange(wk[w].chunk, wk[w].pow, shiftUB) =
                 [from |-> IntervalFrom(rest), to |-> IntervalTo(rest)]

\* process_slice entered with <1, 9> for the first 512 elements of an array
\* of 1000 with stride 16 has pushed five left halves and is about to scan
\* [496, 512)
C20_Witness ==
  /\ len = 1000 /\ stride = 16
  /\ wk[1].pc = "slice_scan"
  /\ wk[1].args = <<1, 9>>
  /\ wk[1].halves = << <<1, 8>>, <<3, 7>>, <<7, 6>>, <<15, 5>>, <<31, 4>> >>
  /\ wk[1].chunk = 32 /\ wk[1].pow = 4
  /\ SliceRange(wk[1].chunk, wk[1].pow, shiftUB) = [from |-> 496, to |-> 512]


(***************************************************************************)
(* Termination of the slicing (checked under SpecFair)                     *)
(***************************************************************************)
\* the loop condition of lines 71-72 and 103 on the locals of worker w, as
\* numbers: 2^pow is below 1 when pow is negative
Halving(w) ==
  /\ wk[w].pow >= 0
  /\ Pow2(wk[w].pow) > stride
  /\ wk[w].chunk * 2 < 1024

\* what the next iteration of worker w's loop makes of pow
NextPow(w) ==
  IF wk[w].pc = "obj_loop"
    THEN ObjSplitStep(wk[w].chunk, wk[w].pow, wk[w].last_idx, len, shiftUB).pow
    ELSE SliceSplitStep(wk[w].chunk, wk[w].pow).pow

\* C21: an iteration of either halving loop happens only while 2^pow > stride
\* and chunk * 2 < 1024 and takes 1 off pow; the loop is left, with pow and
\* chunk as they are, once 2^pow <= stride or chunk * 2 >= 1024; every
\* descriptor pushed by process_slice entered with <C, P> has a pow below P,
\* and every descriptor pushed for the array a pow below its covering power;
\* and with every worker scheduled again and again the slicing ends: from
\* some point on the queue is empty and every worker is idle.
C21_Terminates ==
  /\ [][\A w \in Workers :
         /\ ((ProcessObjLoop(w) /\ wk'[w].pc = "obj_loop") \/
             (ProcessSliceLoop(w) /\ wk'[w].pc = "slice_loop")) =>
              (Halving(w) /\ wk'[w].pow = wk[w].pow - 1)
         /\ ((ProcessObjLoop(w) /\ wk'[w].pc = "obj_tail") \/
             (ProcessSliceLoop(w) /\ wk'[w].pc = "slice_scan")) =>
              /\ ~Halving(w)
              /\ wk'[w].pow = wk[w].pow /\ wk'[w].chunk = wk[w].chunk
         /\ (ProcessSliceLoop(w) /\ npushed' > npushed) =>
              wk'[w].pushed[2] < wk[w].args[2]]_vars
  /\ [](\A w \in Workers :
          (AtLoop(w) /\ SplitMore(wk[w].chunk, wk[w].pow, stride, shiftUB)) =>
            NextPow(w) = wk[w].pow - 1)
  /\ [](\A e \in BagToSet(queue) : pow_of(e) < CoveringBits(len, shiftUB))
  /\ <>[]SliceDone

\* the slicing of an array of 1000 with stride 16 has ended: 62 descriptors
\* were pushed and taken, the queue is empty and the workers are idle
C21_Witness ==
  /\ len = 1000 /\ stride = 16
  /\ SliceDone
  /\ npushed = 62 /\ npopped = 62


(***************************************************************************)
(* The arithmetic of the slicer (checked under Spec)                       *)
(***************************************************************************)
\* a count a 32-bit int can be shifted by with a result that is not negative
ShiftFits(k) == 0 <= k /\ k <= 30
\* the product of a and b, b positive, is an int that is not negative
ProductFits(a, b) == 0 <= a /\ 0 < b /\ a <= INT_MAX \div b

\* C22: for an array of length 1 .. 2^31 - 1 and a stride of 1 or more, the
\* shift of line 44 and every 1 << pow of the loop tests, of the loop bodies
\* and of the range computation has a count in 0 .. 30 and yields 2^pow;
\* chunk * 2, left_chunk_end, last_idx, from and to are the products and
\* sums of the numbers, none below 0 and none above 2^31 - 1; and the
\* halving loop of process_obj is never entered with pow = 31.
C22_NoOverflow ==
  (len >= 1 /\ stride >= 1) =>
    /\ ShiftFits(log2i_graceful(len))
    /\ \A w \in Workers :
         LET chunk == wk[w].chunk
             pow   == wk[w].pow
         IN  /\ wk[w].pc \in {"obj_loop", "slice_loop", "slice_scan"} =>
                  /\ ShiftFits(pow)
                  /\ Shl32(1, pow, shiftUB) = Pow2(pow)
             /\ wk[w].pc \in {"obj_loop", "slice_loop"} =>
                  /\ ProductFits(chunk, 2)
                  /\ Mul32(chunk, 2) = chunk * 2
             /\ (wk[w].pc = "obj_loop" /\ SplitMore(chunk, pow, stride, shiftUB)) =>
                  LET s == ObjSplitStep(chunk, pow, wk[w].last_idx, len, shiftUB)
                      left_chunk == chunk * 2 - 1
                  IN  /\ ShiftFits(pow - 1)
                      /\ ProductFits(left_chunk, Pow2(pow - 1))
                      /\ Mul32(left_chunk, Shl32(1, pow - 1, shiftUB))
                           = left_chunk * Pow2(pow - 1)
                      /\ 0 <= s.last_idx /\ s.last_idx <= len
                      /\ s.push => s.last_idx = left_chunk * Pow2(pow - 1)
             /\ (wk[w].pc = "slice_loop" /\ SplitMore(chunk, pow, stride, shiftUB)) =>
                  /\ ShiftFits(pow - 1)
                  /\ SliceSplitStep(chunk, pow).chunk = chunk * 2
             /\ wk[w].pc \in {"obj_loop", "obj_tail"} =>
                  (0 <= wk[w].last_idx /\ wk[w].last_idx <= len)
             /\ wk[w].pc = "slice_scan" =>
                  /\ ProductFits(chunk, Pow2(pow))
                  /\ SliceRange(chunk, pow, shiftUB)
                       = [from |-> (chunk - 1) * Pow2(pow), to |-> chunk * Pow2(pow)]
                  /\ 0 <= (chunk - 1) * Pow2(pow)
                  /\ chunk * Pow2(pow) <= len

\* process_obj on an array of 2^31 - 1 elements with stride 2^22 has been
\* through the pre-split and the loop and is about to scan the tail from
\* 511 * 2^22
C22_Witness ==
  /\ len = 2147483647 /\ stride = 4194304
  /\ wk[1].pc = "obj_tail"
  /\ wk[1].chunk = 512 /\ wk[1].pow = 22
  /\ wk[1].last_idx = 2143289344


(***************************************************************************)
(* The classification of an entry (checked under SpecEntry)                *)
(***************************************************************************)
\* how many of the three classes the entry is in
Classes ==
  Cardinality({c \in {"oop_ptr", "narrow_oop_ptr", "array_slice"} :
                 CASE c = "oop_ptr"        -> is_oop_ptr(entry)
                   [] c = "narrow_oop_ptr" -> is_narrow_oop_ptr(entry)
                   [] OTHER                -> is_array_slice(entry)})

\* C23: every entry is in exactly one of the classes is_oop_ptr,
\* is_narrow_oop_ptr and is_array_slice, and is_oop is the negation of
\* is_array_slice; the entry of the default constructor is_null, is not
\* chunked and is an is_oop_ptr.
C23_ClassesPartition ==
  /\ Classes = 1
  /\ is_oop(entry) <=> ~is_array_slice(entry)
  /\ (epc = "built" /\ ein.kind = "default") =>
       /\ is_null(entry)
       /\ ~decode_is_chunked(entry)
       /\ is_oop_ptr(entry)

\* the default constructor has returned its entry: null, an is_oop_ptr and
\* nothing else
C23_Witness ==
  /\ epc = "built" /\ ein.kind = "default"
  /\ is_null(entry)
  /\ is_oop_ptr(entry) /\ ~is_narrow_oop_ptr(entry) /\ ~is_array_slice(entry)

====
